---- MODULE Spec2Model ----
(***************************************************************************)
(* firefox-exporter (src/src/main.rs): incremental export of the visit     *)
(* history of every configured Firefox profile.                            *)
(*                                                                         *)
(* One invocation of the program is main(): Context::from_config loads the *)
(* state file of every profile, Context::backup_places copies every        *)
(* profile's places.sqlite, and then the loop of main() processes the      *)
(* profiles one after the other (extract, write the export file, advance   *)
(* the in-memory state, save the state file).  Every error is an           *)
(* unwrap(), i.e. a panic that ends the process.                           *)
(*                                                                         *)
(* Abstractions.  A visit row is its id; the place row it references is    *)
(* either present or missing.  A HistoryEntry is identified by the id of   *)
(* the visit it was built from.  The state file is a sequence of tokens:   *)
(* the constant parts of the pretty-printed JSON are one token each and    *)
(* every decimal digit is a token of its own, so the length of the file    *)
(* varies with the numbers exactly as the length of the real file does.    *)
(***************************************************************************)
EXTENDS Integers, Sequences, FiniteSets, TLC

\* ------------------------------------------------------------- bounds
MaxId    == 2     \* visit identifiers are 1..MaxId
FirstNow == 9     \* the wall clock (ms) at the first invocation
MaxNow   == 10    \* the wall clock never exceeds MaxNow
MaxRuns  == 3     \* number of invocations of the program
MaxFaults == 1    \* number of i/o errors injected over all invocations
MaxParRuns == 1   \* invocations whose loop bodies run interleaved

\* The profile names a configuration may list.
Profiles == {"a", "b"}
Ids   == 1..MaxId
Times == FirstNow..MaxNow

Min(S) == CHOOSE x \in S : \A y \in S : x <= y
Max(S) == CHOOSE x \in S : \A y \in S : x >= y
Range(s) == {s[i] : i \in 1..Len(s)}

\* ------------------------------------------------------------- State
\* struct State and its default (no state file).
DefaultState ==
  [last_run |-> 0, last_sync |-> 0, last_historyvisit_id |-> 0]

DigitChar == <<"0", "1", "2", "3", "4", "5", "6", "7", "8", "9">>
IsDigit(c) == \E i \in 1..10 : DigitChar[i] = c
DigitVal(c) == (CHOOSE i \in 1..10 : DigitChar[i] = c) - 1

\* decimal rendering of a u64
RECURSIVE Digits(_)
Digits(n) ==
  IF n < 10 THEN <<DigitChar[n + 1]>>
  ELSE Append(Digits(n \div 10), DigitChar[(n % 10) + 1])

\* serde_json::to_value(&self) followed by to_writer_pretty: an object whose
\* keys are in the order of serde_json's map (sorted by key).
Serialize(s) ==
  <<"{", "last_historyvisit_id:">> \o Digits(s.last_historyvisit_id)
    \o <<",", "last_run:">> \o Digits(s.last_run)
    \o <<",", "last_sync:">> \o Digits(s.last_sync)
    \o <<"}">>

\* index of the first token at or after i that is not a digit
RECURSIVE NumEnd(_, _)
NumEnd(b, i) ==
  IF i <= Len(b) /\ IsDigit(b[i]) THEN NumEnd(b, i + 1) ELSE i

\* value of the digits b[i..j-1]
RECURSIVE NumVal(_, _, _)
NumVal(b, i, j) ==
  IF j <= i THEN 0 ELSE NumVal(b, i, j - 1) * 10 + DigitVal(b[j - 1])

\* a JSON number: at least one digit, no leading zero
NumOk(b, i, j) == j > i /\ (b[i] # "0" \/ j = i + 1)

\* serde_json::from_reader + from_value on the bytes of a state file: the
\* three fields, nothing missing, nothing after the closing brace.
ParseState(b) ==
  LET e1 == NumEnd(b, 3)
      e2 == NumEnd(b, e1 + 2)
      e3 == NumEnd(b, e2 + 2)
      ok == /\ Len(b) >= 10
            /\ b[1] = "{" /\ b[2] = "last_historyvisit_id:"
            /\ NumOk(b, 3, e1)
            /\ e1 + 1 <= Len(b) /\ b[e1] = "," /\ b[e1 + 1] = "last_run:"
            /\ NumOk(b, e1 + 2, e2)
            /\ e2 + 1 <= Len(b) /\ b[e2] = "," /\ b[e2 + 1] = "last_sync:"
            /\ NumOk(b, e2 + 2, e3)
            /\ e3 = Len(b) /\ b[e3] = "}"
  IN IF ok
     THEN [ok |-> TRUE,
           state |-> [last_run |-> NumVal(b, e1 + 2, e2),
                      last_sync |-> NumVal(b, e2 + 2, e3),
                      last_historyvisit_id |-> NumVal(b, 3, e1)]]
     ELSE [ok |-> FALSE, state |-> DefaultState]

\* a file of the working directory: absent, or its content
NoFile == [exists |-> FALSE, bytes |-> <<>>]

\* State::from_json: the default state when the file does not exist,
\* otherwise the parsed content; ok = FALSE is the panic of an unwrap().
from_json(file) ==
  IF ~file.exists THEN [ok |-> TRUE, state |-> DefaultState]
  ELSE ParseState(file.bytes)

\* OpenOptions::new().create(true).write(true): the file is created when
\* absent and is NOT truncated; the first n tokens of `new` are written from
\* offset 0 and whatever the file held beyond them stays.
WriteOver(file, new, n) ==
  [exists |-> TRUE,
   bytes  |-> SubSeq(new, 1, n) \o SubSeq(file.bytes, n + 1, Len(file.bytes))]

\* ------------------------------------------------------------- database
\* places.sqlite reduced to what the queries read: the ids of the rows of
\* moz_historyvisits, and those among them whose place_id has no row in
\* moz_places.
EmptyDb == [visits |-> {}, noplace |-> {}]
NoSnapshot == [exists |-> FALSE, db |-> EmptyDb]

\* The query of get_history has no ORDER BY: the engine returns the rows in
\* the order of the access path it picks (the physical order of the rows, an
\* index, a reversed scan), which the statement does not fix.  RowOrders are
\* the orders a query over the rows S may come back in.
RowOrders(S) ==
  {rows \in [1..Cardinality(S) -> S] : \A id \in S : \E i \in DOMAIN rows : rows[i] = id}

\* Profile::get_place_entry: the url of the place, or the panic of
\* next().unwrap() when the query returns no row.
get_place_entry(db, visit) == [panic |-> visit \in db.noplace]

\* the query of get_history: where id > :from_id
HistoryQueryGe(rows, from_id) == SelectSeq(rows, LAMBDA id : id >= from_id)
HistoryQuery(rows, from_id) == SelectSeq(rows, LAMBDA id : id > from_id)

\* Profile::get_history: one HistoryEntry per row of the query, in the order
\* of the rows; the first row whose place is missing ends the process.
get_history(db, scan, from_id) ==
  LET rows == HistoryQuery(scan, from_id)
  IN [panic   |-> \E i \in 1..Len(rows) : get_place_entry(db, rows[i]).panic,
      entries |-> rows]

\* ------------------------------------------------------------- file output
\* BufWriter::new(file) is moved into serde_json::to_writer_pretty, which
\* does not flush it: the buffered bytes reach the file when the writer is
\* dropped, and an error of that last flush is discarded by the drop.  So an
\* I/O error is seen by the unwrap() only when it happens in open() or in a
\* write made while serializing (the buffer filled up); an error of the
\* final flush leaves the file short and the caller goes on.
ExportOutcomes == {"ok", "open_err", "write_err", "flush_err"}
SaveOutcomes   == {"ok", "open_err", "flush_err"}

\* line 218: the export is written only for a non-empty batch
ShouldWriteAlways(history) == TRUE
ShouldWrite(history) == Len(history) > 0

\* write_history_to_file: n is the number of entries that reached the file
\* before the error (entries stand for their serialized text).
write_history_to_file(file, history, outcome, n) ==
  CASE outcome = "ok" ->
         [file |-> WriteOver(file, history, Len(history)), panic |-> FALSE]
    [] outcome = "open_err" ->
         [file |-> file, panic |-> TRUE]
    [] outcome = "write_err" ->
         [file |-> WriteOver(file, history, n), panic |-> TRUE]
    [] outcome = "flush_err" ->
         [file |-> WriteOver(file, history, n), panic |-> FALSE]

\* State::to_json: the state is far smaller than the buffer, so every write
\* error is an error of the final flush and is discarded.
to_json(file, state, outcome, n) ==
  CASE outcome = "ok" ->
         [file |-> WriteOver(file, Serialize(state), Len(Serialize(state))),
          panic |-> FALSE]
    [] outcome = "open_err" ->
         [file |-> file, panic |-> TRUE]
    [] outcome = "flush_err" ->
         [file |-> WriteOver(file, Serialize(state), n), panic |-> FALSE]

\* lines 231-233: the cursor advances by the number of entries
AdvanceOffByOne(state, k, t) ==
  [state EXCEPT !.last_historyvisit_id = @ + k + 1, !.last_sync = t]
Advance(state, k, t) ==
  [state EXCEPT !.last_historyvisit_id = @ + k, !.last_sync = t]

\* ------------------------------------------------------------- state
VARIABLES
  profiles,   \* context.profiles: the [profile] table of the configuration,
              \* in the order of iteration of the toml table (sorted by name)
  source,     \* per profile: the live places.sqlite of the browser
  snap,       \* per profile: <working_directory>/profiles/<name>/places.sqlite
  stateFile,  \* per profile: <working_directory>/profiles/<name>/state.json
  exports,    \* per profile and timestamp: history_export_<now>.json
  pc,         \* "idle", "backup", "extract", "write", "save", "done", "crashed"
  idx,        \* position of the loop of main() in context.profiles
  mem,        \* per profile: profile.state
  now,        \* per profile: `now` of its iteration (0: not reached)
  history,    \* per profile: `history` of its iteration
  clock,      \* the last value the wall clock returned
  runs,       \* invocations so far
  before,     \* per profile: the state file as from_config found it
  wr,         \* per profile: what happened in write_history_to_file
  sv,         \* per profile: what happened in to_json
  failure,    \* the panic that ended the invocation, "none" otherwise
  written,    \* per profile: ids whose entry reached an export file
  completed,  \* no invocation has panicked so far
  faults,     \* i/o errors injected so far
  quiet,      \* per profile: the last run found nothing, and the snapshot
              \* of this run equals the snapshot of that run
  copies,     \* per profile: fs::copy calls onto its snapshot, this invocation
  redo,       \* per profile: the batch and `now` of the previous invocation
              \* when it stopped between the export and the save of the state
  rt,         \* what State::from_json returned for a state file read back
              \* outside of main()
  pos         \* per profile, when the bodies of the loop of main() run
              \* interleaved: "wait", "write", "save", "done"

vars == <<profiles, source, snap, stateFile, exports, pc, idx, mem, now, history,
          clock, runs, before, wr, sv, failure, written, completed, faults, quiet,
          copies, redo, rt, pos>>

NoExport == [exists |-> FALSE, bytes |-> <<>>]

NoRedo == [set |-> FALSE, ids |-> {}, now |-> 0]

NotLoaded == [ok |-> FALSE, state |-> DefaultState]

Configured == {profiles[i] : i \in 1..Len(profiles)}

\* everything but the configuration
InitRest ==
  /\ source = [p \in Profiles |-> EmptyDb]
  /\ snap = [p \in Profiles |-> NoSnapshot]
  /\ stateFile = [p \in Profiles |-> NoFile]
  /\ exports = [p \in Profiles |-> [t \in Times |-> NoExport]]
  /\ pc = "idle"
  /\ idx = 0
  /\ mem = [p \in Profiles |-> DefaultState]
  /\ now = [p \in Profiles |-> 0]
  /\ history = [p \in Profiles |-> <<>>]
  /\ clock = FirstNow
  /\ runs = 0
  /\ before = [p \in Profiles |-> NoFile]
  /\ wr = [p \in Profiles |-> "none"]
  /\ sv = [p \in Profiles |-> "none"]
  /\ failure = "none"
  /\ written = [p \in Profiles |-> {}]
  /\ completed = TRUE
  /\ faults = 0
  /\ quiet = [p \in Profiles |-> FALSE]
  /\ copies = [p \in Profiles |-> 0]
  /\ redo = [p \in Profiles |-> NoRedo]
  /\ rt = NotLoaded
  /\ pos = [p \in Profiles |-> "wait"]

\* a configuration with one profile
Init == profiles = <<"a">> /\ InitRest

\* a configuration with two profiles
InitMulti == profiles = <<"a", "b">> /\ InitRest

\* ------------------------------------------------------------- environment
\* The browser records a visit: the table only gains rows, and a new row
\* gets an id above every id of the table (ids need not be contiguous).  The
\* place the visit references may be missing.
Visit(p) ==
  /\ \E id \in Ids, dangling \in BOOLEAN :
       /\ \A v \in source[p].visits : v < id
       /\ source' = [source EXCEPT
            ![p] = [visits  |-> @.visits \cup {id},
                    noplace |-> IF dangling THEN @.noplace \cup {id}
                                ELSE @.noplace]]
  /\ UNCHANGED <<pos, rt, profiles, snap, stateFile, exports, pc, idx, mem, now, history, clock,
                 runs, before, wr, sv, failure, written, completed, faults, quiet,
                 copies, redo>>

\* ------------------------------------------------------------- main()
\* lines 204-205: Context::from_config loads every profile's state.
Invoke ==
  /\ pc \in {"idle", "done", "crashed"}
  /\ runs < MaxRuns
  /\ runs' = runs + 1
  /\ LET loaded == [p \in Profiles |->
                     IF p \in Configured THEN from_json(stateFile[p])
                     ELSE [ok |-> TRUE, state |-> DefaultState]]
         ok == \A p \in Profiles : loaded[p].ok
     IN /\ mem' = [p \in Profiles |-> loaded[p].state]
        /\ pc' = IF ok THEN "backup" ELSE "crashed"
        /\ failure' = IF ok THEN "none" ELSE "StateCorrupt"
        /\ completed' = (completed /\ ok)
  /\ idx' = 0
  /\ now' = [p \in Profiles |-> 0]
  /\ history' = [p \in Profiles |-> <<>>]
  /\ before' = stateFile
  /\ wr' = [p \in Profiles |-> "none"]
  /\ sv' = [p \in Profiles |-> "none"]
  /\ quiet' = [p \in Profiles |->
                 now[p] > 0 /\ history[p] = <<>> /\ sv[p] = "ok"]
  /\ pos' = [p \in Profiles |-> "wait"]
  /\ copies' = [p \in Profiles |-> 0]
  /\ redo' = [p \in Profiles |->
                IF wr[p] = "ok" /\ sv[p] \in {"none", "open_err"}
                THEN [set |-> TRUE, ids |-> Range(history[p]), now |-> now[p]]
                ELSE NoRedo]
  /\ UNCHANGED <<rt, profiles, source, snap, stateFile, exports, clock, written, faults>>

\* Context::backup_places (line 207): fs::copy for every profile in turn,
\* before any profile is processed; the first copy that fails ends the
\* process.  `unavailable` are the profiles whose source cannot be read.
FirstFailure(unavailable) ==
  IF \E i \in 1..Len(profiles) : profiles[i] \in unavailable
  THEN Min({i \in 1..Len(profiles) : profiles[i] \in unavailable})
  ELSE Len(profiles) + 1

backup_places(unavailable) ==
  [p \in Profiles |->
     IF \E i \in 1..(FirstFailure(unavailable) - 1) : profiles[i] = p
     THEN [exists |-> TRUE, db |-> source[p]]
     ELSE snap[p]]

BackupPlaces ==
  /\ pc = "backup"
  /\ \E unavailable \in SUBSET Configured :
       /\ unavailable # {} => faults < MaxFaults
       /\ faults' = IF unavailable # {} THEN faults + 1 ELSE faults
       /\ LET f == FirstFailure(unavailable)
              ok == f > Len(profiles)
          IN /\ snap' = backup_places(unavailable)
             /\ pc' = IF ok THEN "extract" ELSE "crashed"
             /\ idx' = IF ok THEN 1 ELSE f
             /\ failure' = IF ok THEN "none" ELSE "SourceUnavailable"
             /\ completed' = (completed /\ ok)
             /\ quiet' = [p \in Profiles |-> quiet[p] /\ snap'[p] = snap[p]]
             /\ copies' = [p \in Profiles |->
                             IF \E i \in 1..(f - 1) : profiles[i] = p
                             THEN copies[p] + 1 ELSE copies[p]]
  /\ UNCHANGED <<pos, rt, profiles, source, stateFile, exports, mem, now, history, clock, runs,
                 before, wr, sv, written, redo>>

\* Connection::open(&self.db_path) in get_history and get_place_entry: the
\* database the queries of profile p read is the snapshot copy
OpenLivePlaces(p) == source[p]
OpenPlaces(p) == snap[p].db

\* lines 209-216: now, last_run, get_history.  The wall clock does not go
\* back; two readings may return the same millisecond.
Extract ==
  /\ pc = "extract"
  /\ LET p == profiles[idx]
         db == OpenPlaces(p)
     IN \E t \in Times, scan \in RowOrders(db.visits) :
        LET got == get_history(db, scan, mem[p].last_historyvisit_id)
        IN
          /\ t >= clock
          /\ clock' = t
          /\ now' = [now EXCEPT ![p] = t]
          /\ mem' = [mem EXCEPT ![p].last_run = t]
          /\ IF got.panic
             THEN /\ pc' = "crashed"
                  /\ failure' = "MissingPlace"
                  /\ completed' = FALSE
                  /\ UNCHANGED history
             ELSE /\ pc' = IF ShouldWrite(got.entries) THEN "write" ELSE "save"
                  /\ history' = [history EXCEPT ![p] = got.entries]
                  /\ UNCHANGED <<failure, completed>>
  /\ UNCHANGED <<pos, rt, profiles, source, snap, stateFile, exports, idx, runs, before, wr, sv,
                 written, faults, quiet, copies, redo>>

\* lines 219-233: write the export file, then advance the state in memory
WriteExport ==
  /\ pc = "write"
  /\ LET p == profiles[idx]
         h == history[p]
     IN \E outcome \in ExportOutcomes, n \in 0..Len(h) :
          /\ (outcome = "ok") = (n = Len(h))
          /\ outcome # "ok" => faults < MaxFaults
          /\ faults' = IF outcome # "ok" THEN faults + 1 ELSE faults
          /\ LET res == write_history_to_file(exports[p][now[p]], h, outcome, n)
             IN /\ exports' = [exports EXCEPT ![p][now[p]] = res.file]
                /\ wr' = [wr EXCEPT ![p] = outcome]
                /\ written' = [written EXCEPT
                     ![p] = IF outcome = "open_err" THEN @
                            ELSE @ \cup {h[i] : i \in 1..n}]
                /\ completed' = (completed /\ ~res.panic)
                /\ IF res.panic
                   THEN /\ pc' = "crashed"
                        /\ failure' = "WriteError"
                        /\ UNCHANGED mem
                   ELSE /\ pc' = "save"
                        /\ mem' = [mem EXCEPT ![p] = Advance(@, Len(h), now[p])]
                        /\ UNCHANGED failure
  /\ UNCHANGED <<pos, rt, profiles, source, snap, stateFile, idx, now, history, clock, runs,
                 before, sv, quiet, copies, redo>>

\* lines 238-245: save the state, then the next profile
SaveState ==
  /\ pc = "save"
  /\ LET p == profiles[idx]
         new == Serialize(mem[p])
     IN \E outcome \in SaveOutcomes, n \in 0..Len(new) :
          /\ (outcome = "ok") = (n = Len(new))
          /\ outcome # "ok" => faults < MaxFaults
          /\ faults' = IF outcome # "ok" THEN faults + 1 ELSE faults
          /\ (outcome = "open_err") => (n = 0)
          /\ LET res == to_json(stateFile[p], mem[p], outcome, n)
             IN /\ stateFile' = [stateFile EXCEPT ![p] = res.file]
                /\ sv' = [sv EXCEPT ![p] = outcome]
                /\ completed' = (completed /\ ~res.panic)
                /\ IF res.panic
                   THEN /\ pc' = "crashed"
                        /\ failure' = "StateWriteError"
                        /\ UNCHANGED idx
                   ELSE /\ pc' = IF idx < Len(profiles) THEN "extract"
                                 ELSE "done"
                        /\ idx' = IF idx < Len(profiles) THEN idx + 1
                                  ELSE idx
                        /\ UNCHANGED failure
  /\ UNCHANGED <<pos, rt, profiles, source, snap, exports, mem, now, history, clock, runs,
                 before, wr, written, quiet, copies, redo>>

Next ==
  \/ \E p \in Configured : Visit(p)
  \/ Invoke
  \/ BackupPlaces
  \/ Extract
  \/ WriteExport
  \/ SaveState

Spec == Init /\ [][Next]_vars

SpecMulti == InitMulti /\ [][Next]_vars

\* ------------------------------------------------------------- interleaved
\* The bodies of the loop of main() (lines 209-245), one per profile, run
\* interleaved after backup_places instead of one after the other.  Each
\* step is the step of the loop body; a panic is what it is in main(): the
\* end of the process, for every profile.
IndexOf(p) == CHOOSE i \in 1..Len(profiles) : profiles[i] = p

\* an invocation whose loop bodies run interleaved
ParInvoke == runs < MaxParRuns /\ Invoke

ParExtract(p) ==
  /\ pc = "extract" /\ pos[p] = "wait"
  /\ idx' = IndexOf(p)
  /\ LET db == OpenPlaces(p)
     IN \E t \in Times, scan \in RowOrders(db.visits) :
        LET got == get_history(db, scan, mem[p].last_historyvisit_id)
        IN
          /\ t >= clock
          /\ clock' = t
          /\ now' = [now EXCEPT ![p] = t]
          /\ mem' = [mem EXCEPT ![p].last_run = t]
          /\ IF got.panic
             THEN /\ pc' = "crashed"
                  /\ failure' = "MissingPlace"
                  /\ completed' = FALSE
                  /\ UNCHANGED <<history, pos>>
             ELSE /\ pos' = [pos EXCEPT ![p] =
                       IF ShouldWrite(got.entries) THEN "write" ELSE "save"]
                  /\ history' = [history EXCEPT ![p] = got.entries]
                  /\ UNCHANGED <<pc, failure, completed>>
  /\ UNCHANGED <<rt, profiles, source, snap, stateFile, exports, runs, before, wr,
                 sv, written, faults, quiet, copies, redo>>

ParWrite(p) ==
  /\ pc = "extract" /\ pos[p] = "write"
  /\ idx' = IndexOf(p)
  /\ LET h == history[p]
     IN \E outcome \in ExportOutcomes, n \in 0..Len(h) :
          /\ (outcome = "ok") = (n = Len(h))
          /\ outcome # "ok" => faults < MaxFaults
          /\ faults' = IF outcome # "ok" THEN faults + 1 ELSE faults
          /\ LET res == write_history_to_file(exports[p][now[p]], h, outcome, n)
             IN /\ exports' = [exports EXCEPT ![p][now[p]] = res.file]
                /\ wr' = [wr EXCEPT ![p] = outcome]
                /\ written' = [written EXCEPT
                     ![p] = IF outcome = "open_err" THEN @
                            ELSE @ \cup {h[i] : i \in 1..n}]
                /\ completed' = (completed /\ ~res.panic)
                /\ IF res.panic
                   THEN /\ pc' = "crashed"
                        /\ failure' = "WriteError"
                        /\ UNCHANGED <<mem, pos>>
                   ELSE /\ pos' = [pos EXCEPT ![p] = "save"]
                        /\ mem' = [mem EXCEPT ![p] = Advance(@, Len(h), now[p])]
                        /\ UNCHANGED <<pc, failure>>
  /\ UNCHANGED <<rt, profiles, source, snap, stateFile, now, history, clock, runs,
                 before, sv, quiet, copies, redo>>

ParSave(p) ==
  /\ pc = "extract" /\ pos[p] = "save"
  /\ idx' = IndexOf(p)
  /\ LET new == Serialize(mem[p])
     IN \E outcome \in SaveOutcomes, n \in 0..Len(new) :
          /\ (outcome = "ok") = (n = Len(new))
          /\ outcome # "ok" => faults < MaxFaults
          /\ faults' = IF outcome # "ok" THEN faults + 1 ELSE faults
          /\ (outcome = "open_err") => (n = 0)
          /\ LET res == to_json(stateFile[p], mem[p], outcome, n)
             IN /\ stateFile' = [stateFile EXCEPT ![p] = res.file]
                /\ sv' = [sv EXCEPT ![p] = outcome]
                /\ completed' = (completed /\ ~res.panic)
                /\ IF res.panic
                   THEN /\ pc' = "crashed"
                        /\ failure' = "StateWriteError"
                        /\ UNCHANGED pos
                   ELSE /\ pos' = [pos EXCEPT ![p] = "done"]
                        /\ pc' = IF \A q \in Configured : pos'[q] = "done"
                                 THEN "done" ELSE "extract"
                        /\ UNCHANGED failure
  /\ UNCHANGED <<rt, profiles, source, snap, exports, mem, now, history, clock, runs,
                 before, wr, written, quiet, copies, redo>>

NextPar ==
  \/ \E p \in Configured : Visit(p)
  \/ ParInvoke
  \/ BackupPlaces
  \/ \E p \in Configured : ParExtract(p)
  \/ \E p \in Configured : ParWrite(p)
  \/ \E p \in Configured : ParSave(p)

SpecPar == InitMulti /\ [][NextPar]_vars

\* ------------------------------------------------------------- State alone
\* State::to_json and State::from_json taken by themselves, on the state
\* file of profile "a": any State value is saved to a path that holds no
\* file or the serialization of any other State value, and read back.
StateValues ==
  [last_historyvisit_id : 0..MaxId, last_run : {0} \cup Times,
   last_sync : {0} \cup Times]

EarlierFiles ==
  {NoFile} \cup {[exists |-> TRUE, bytes |-> Serialize(s)] : s \in StateValues}

InitRoundTrip ==
  /\ profiles = <<"a">>
  /\ source = [p \in Profiles |-> EmptyDb]
  /\ snap = [p \in Profiles |-> NoSnapshot]
  /\ \E f \in EarlierFiles :
       /\ stateFile = [p \in Profiles |-> IF p = "a" THEN f ELSE NoFile]
       /\ before = stateFile
  /\ exports = [p \in Profiles |-> [t \in Times |-> NoExport]]
  /\ pc = "new"
  /\ idx = 1
  /\ \E s \in StateValues :
       mem = [p \in Profiles |-> IF p = "a" THEN s ELSE DefaultState]
  /\ now = [p \in Profiles |-> 0]
  /\ history = [p \in Profiles |-> <<>>]
  /\ clock = FirstNow
  /\ runs = 0
  /\ wr = [p \in Profiles |-> "none"]
  /\ sv = [p \in Profiles |-> "none"]
  /\ failure = "none"
  /\ written = [p \in Profiles |-> {}]
  /\ completed = TRUE
  /\ faults = 0
  /\ quiet = [p \in Profiles |-> FALSE]
  /\ copies = [p \in Profiles |-> 0]
  /\ redo = [p \in Profiles |-> NoRedo]
  /\ rt = NotLoaded
  /\ pos = [p \in Profiles |-> "wait"]

\* save(s, path): to_json with no i/o error
Save ==
  /\ pc = "new"
  /\ LET p == profiles[idx]
         res == to_json(stateFile[p], mem[p], "ok", Len(Serialize(mem[p])))
     IN /\ stateFile' = [stateFile EXCEPT ![p] = res.file]
        /\ sv' = [sv EXCEPT ![p] = "ok"]
  /\ pc' = "saved"
  /\ UNCHANGED <<pos, rt, profiles, source, snap, exports, idx, mem, now, history, clock,
                 runs, before, wr, failure, written, completed, faults, quiet,
                 copies, redo>>

\* load(path): from_json, on the path as it was found or after the save
Load ==
  /\ pc \in {"new", "saved"}
  /\ rt' = from_json(stateFile[profiles[idx]])
  /\ pc' = IF pc = "new" THEN "probed" ELSE "loaded"
  /\ failure' = IF rt'.ok THEN "none" ELSE "StateCorrupt"
  /\ UNCHANGED <<pos, profiles, source, snap, stateFile, exports, idx, mem, now, history,
                 clock, runs, before, wr, sv, written, completed, faults, quiet,
                 copies, redo>>

NextRoundTrip == Save \/ Load

SpecRoundTrip == InitRoundTrip /\ [][NextRoundTrip]_vars

\* ------------------------------------------------------------- vocabulary
\* the state persisted for p, and the state from_config loaded for p
Persisted(p) == from_json(stateFile[p])
Loaded(p) == from_json(before[p])

\* no panic and no i/o error so far
Clean == completed /\ faults = 0

\* get_history has returned for p in this invocation
Extracted(p) ==
  /\ now[p] > 0
  /\ ~(pc = "crashed" /\ failure = "MissingPlace" /\ profiles[idx] = p)

\* the export files of p that hold the entry of visit id
FilesHolding(p, id) ==
  {t \in Times : exports[p][t].exists /\ id \in Range(exports[p][t].bytes)}

\* ------------------------------------------------------------- claims
\* C1: across completed runs of one profile, starting from the default state
\* and with a visit table that only gains records (ids arbitrary positive
\* integers), no visit record is written to more than one export file.
C1_NoReExport ==
  Clean => \A p \in Configured : \A id \in Ids :
             Cardinality(FilesHolding(p, id)) <= 1

\* C2: across completed runs, every visit record of the snapshot of a run
\* that ended with a successful export or with "nothing to do" has been
\* written to an export file (the cursor never skips a visit).
C2_NoVisitSkipped ==
  completed => \A p \in Configured :
    (Extracted(p) /\ sv[p] = "ok" /\ wr[p] \in {"none", "ok"})
      => snap[p].db.visits \subseteq written[p]

\* C3: for every run, the persisted last_history_id after the run is >= its
\* value before the run, and it is greater only if the export file of the
\* batch was written successfully in that run.
C3_CursorMonotonic ==
  \A p \in Configured :
    (Persisted(p).ok /\ Loaded(p).ok) =>
      /\ Persisted(p).state.last_historyvisit_id
           >= Loaded(p).state.last_historyvisit_id
      /\ Persisted(p).state.last_historyvisit_id
           > Loaded(p).state.last_historyvisit_id => wr[p] = "ok"

\* C4: after every successful non-empty run the persisted cursor equals the
\* highest visit identifier among the records exported so far, for any set
\* of visit identifiers (gaps, not starting at 1).
C4_CursorIsHighestExported ==
  Clean => \A p \in Configured :
    (wr[p] = "ok" /\ sv[p] = "ok") =>
      /\ Persisted(p).ok
      /\ Persisted(p).state.last_historyvisit_id = Max(written[p])


C6_ExactlyNewer ==
  \A p \in Configured :
    Extracted(p) =>
      /\ Range(history[p]) =
           {id \in snap[p].db.visits :
              id > Loaded(p).state.last_historyvisit_id}
      /\ Cardinality(Range(history[p])) = Len(history[p])

\* C6 witness: an extraction that returned some records of a snapshot and
\* left out others, the cursor being positive.
C6_Witness ==
  \E p \in Configured :
    /\ Extracted(p)
    /\ Loaded(p).state.last_historyvisit_id > 0
    /\ history[p] # <<>>
    /\ \E id \in snap[p].db.visits : id \notin Range(history[p])

\* C7: if the Export Writer fails for a profile, the persisted state of that
\* profile is unchanged after the run.
C7_WriteFailureKeepsState ==
  \A p \in Configured :
    wr[p] \in {"open_err", "write_err", "flush_err"} => stateFile[p] = before[p]

\* C8: when extraction yields zero entries the run creates no export file
\* and changes only last_run in the persisted state; and a run that follows
\* it with no new visits in its snapshot yields zero entries again, so none
\* of these runs produces an export file.
C8_EmptyRunState ==
  \A p \in Configured :
    (Extracted(p) /\ history[p] = <<>>) =>
      /\ wr[p] = "none"
      /\ sv[p] = "ok" =>
           /\ Persisted(p).ok
           /\ Persisted(p).state = [Loaded(p).state EXCEPT !.last_run = now[p]]
      /\ sv[p] = "none" => stateFile[p] = before[p]

C8_QuietStaysEmpty ==
  \A p \in Configured : (quiet[p] /\ Extracted(p)) => history[p] = <<>>

C8_NoFileStep ==
  \A p \in Configured :
    (now'[p] > 0 /\ history'[p] = <<>>) => exports'[p] = exports[p]

C9_BackupFailureIsolated ==
  (pc = "crashed" /\ failure = "SourceUnavailable") =>
    /\ stateFile[profiles[idx]] = before[profiles[idx]]
    /\ \A i \in 1..Len(profiles) : i # idx => sv[profiles[i]] # "none"

\* C10: when a visit record references a place that does not exist,
\* extraction skips that record and continues: the other records of the
\* batch are returned and the profile's run is not aborted.
C10_MissingPlaceSkipped ==
  \A p \in Configured :
    (now[p] > 0 /\ snap[p].db.noplace # {}) =>
      /\ Extracted(p)
      /\ Range(history[p]) =
           {id \in snap[p].db.visits \ snap[p].db.noplace :
              id > Loaded(p).state.last_historyvisit_id}

\* C11: state persistence is atomic: at every point, also after a failure
\* in the middle of the write, the state file holds either the complete
\* previous state or the complete new state.
C11_AtomicSave ==
  \A p \in Configured :
    \/ stateFile[p] = before[p]
    \/ /\ sv[p] # "none"
       /\ stateFile[p] = [exists |-> TRUE, bytes |-> Serialize(mem[p])]

\* C13: in every reachable state the cursor of the state file reflects only
\* batches whose export file is completely written on disk: a cursor that a
\* run advanced has that run's whole batch in that run's export file.
C13_CursorBackedByExport ==
  \A p \in Configured :
    (/\ Persisted(p).ok /\ Loaded(p).ok
     /\ Persisted(p).state.last_historyvisit_id
          # Loaded(p).state.last_historyvisit_id) =>
      /\ now[p] > 0
      /\ exports[p][now[p]].exists
      /\ Len(exports[p][now[p]].bytes) >= Len(history[p])
      /\ SubSeq(exports[p][now[p]].bytes, 1, Len(history[p])) = history[p]

\* C15: the sequence returned by extraction, and so the list of every export
\* file, is ordered by visit id ascending, whatever the physical order of
\* the rows in the snapshot.
C15_AscendingById ==
  \A p \in Configured :
    Extracted(p) =>
      \A i, j \in 1..Len(history[p]) : i < j => history[p][i] < history[p][j]

\* C14: no two successful non-empty exports target the same export file, also
\* when two runs of a profile read the same millisecond: a successful export
\* creates its file, it never writes over an export file that exists.
C14_ExportStep ==
  \A p \in Configured :
    (pc = "write" /\ profiles[idx] = p /\ wr'[p] = "ok" /\ Clean') =>
      ~exports[p][now[p]].exists

C14_NoOverwrite == [][C14_ExportStep]_vars

\* C16: for every profile the steps occur in the order Backup, Extract,
\* Write, State-advance: the snapshot is copied exactly once per run, the
\* copy is complete before extraction reads it, and extraction reads the
\* snapshot only, never the live database.
C16_PipelineOrder ==
  \A p \in Configured :
    /\ copies[p] <= 1
    /\ now[p] > 0 => (copies[p] = 1 /\ snap[p].exists)
    /\ wr[p] # "none" => (Extracted(p) /\ history[p] # <<>>)
    /\ sv[p] # "none" =>
         /\ Extracted(p)
         /\ history[p] # <<>> => wr[p] \in {"ok", "flush_err"}
    /\ Extracted(p) => Range(history[p]) \subseteq snap[p].db.visits

\* a run went through all four steps while the live database already held a
\* visit beyond the cursor that the snapshot does not hold
C16_Witness ==
  \E p \in Configured :
    /\ copies[p] = 1 /\ Extracted(p) /\ wr[p] = "ok" /\ sv[p] = "ok"
    /\ \E id \in source[p].visits \ snap[p].db.visits :
         id > Loaded(p).state.last_historyvisit_id

\* C18: when a run stops after its export file is written and before its
\* state file is saved, the state file still holds the previous cursor, and
\* the next run extracts the same records again and exports them ...
C18_StateKept ==
  \A p \in Configured :
    (wr[p] = "ok" /\ sv[p] \in {"none", "open_err"}) => stateFile[p] = before[p]

C18_ExtractedAgain ==
  \A p \in Configured :
    (redo[p].set /\ Extracted(p)) => redo[p].ids \subseteq Range(history[p])

\* ... into a new export file, not the file of the run that stopped
C18_NewFile ==
  \A p \in Configured :
    (redo[p].set /\ wr[p] = "ok") => now[p] # redo[p].now

C18_ReExportAfterStop == C18_StateKept /\ C18_ExtractedAgain /\ C18_NewFile

\* C12: round trip: for every State s and every path, with no file at the
\* path or a state file of any earlier contents (shorter or longer), load
\* after save returns a State equal to s; load on a path with no file
\* returns {0, 0, 0}.
C12_RoundTrip ==
  /\ pc = "loaded" => (rt.ok /\ rt.state = mem[profiles[idx]])
  /\ (pc = "probed" /\ ~stateFile[profiles[idx]].exists) =>
       (rt.ok /\ rt.state = DefaultState)

====
